---- MODULE Spec2Model ----
(***************************************************************************)
(* Model of the strpool crate (src/lib.rs): a thread-local, append-only,   *)
(* deduplicating string pool (StrPool) and the index handle (StrRef) whose *)
(* string-like behaviour is obtained by resolving the index in the pool.   *)
(*                                                                         *)
(* A str / String / Vec<u8> is the sequence of its bytes.  An entry of    *)
(* the pool is a Cow<'static, str>: a record with the variant and the      *)
(* text.  A StrRef is the record [ptr |-> n], n counted from 0 as in Rust. *)
(***************************************************************************)
EXTENDS Integers, Sequences, FiniteSets, TLC

(***************************************************************************)
(* Bounds of the model.                                                    *)
(***************************************************************************)
\* longest byte sequence handed to any constructor
MaxLen == 2
\* an insertion that would grow a pool beyond MaxPool entries is not taken
MaxPool == 2

\* the bytes the inputs are made of: ASCII 'h', the two bytes of U+00E9
\* (0xC3 0xA9), and the byte 0xFF, which occurs in no UTF-8 text
Alphabet == {104, 195, 169, 255}

\* the execution contexts (threads); each owns one GLOBAL_POOL
Threads == {"main", "worker"}
\* the contexts that run in Spec
Running == {"main"}

VARIABLES
    GLOBAL_POOL,   \* per thread: None before first use, Some(StrPool) after
    issued,        \* per thread: the (handle, text) pairs insertions returned
    ret            \* the call that has just returned (operation, arguments,
                   \* result), Idle once the caller has gone on

vars == <<GLOBAL_POOL, issued, ret>>

(***************************************************************************)
(* Option<T>                                                               *)
(***************************************************************************)
None == [some |-> FALSE]
Some(v) == [some |-> TRUE, val |-> v]

(***************************************************************************)
(* Byte sequences and UTF-8 validation (core::str::from_utf8).             *)
(***************************************************************************)
ByteSeqs == UNION {[1..n -> Alphabet] : n \in 0..MaxLen}

\* continuation byte 10xxxxxx
IsCont(b) == b >= 128 /\ b <= 191

\* Width of the UTF-8 sequence starting at position i of bytes, or 0 when no
\* well-formed sequence starts there (the cases of run_utf8_validation).
Utf8SeqLen(bytes, i) ==
    LET n == Len(bytes)
        b0 == bytes[i]
        has(k) == i + k <= n
        b(k) == bytes[i + k]
    IN  IF b0 < 128 THEN 1
        ELSE IF b0 >= 194 /\ b0 <= 223
            THEN IF has(1) /\ IsCont(b(1)) THEN 2 ELSE 0
        ELSE IF b0 >= 224 /\ b0 <= 239
            THEN IF /\ has(2)
                    /\ \/ b0 = 224 /\ b(1) >= 160 /\ b(1) <= 191
                       \/ b0 >= 225 /\ b0 <= 236 /\ IsCont(b(1))
                       \/ b0 = 237 /\ b(1) >= 128 /\ b(1) <= 159
                       \/ b0 >= 238 /\ IsCont(b(1))
                    /\ IsCont(b(2))
                 THEN 3 ELSE 0
        ELSE IF b0 >= 240 /\ b0 <= 244
            THEN IF /\ has(3)
                    /\ \/ b0 = 240 /\ b(1) >= 144 /\ b(1) <= 191
                       \/ b0 >= 241 /\ b0 <= 243 /\ IsCont(b(1))
                       \/ b0 = 244 /\ b(1) >= 128 /\ b(1) <= 143
                    /\ IsCont(b(2))
                    /\ IsCont(b(3))
                 THEN 4 ELSE 0
        ELSE 0

\* Scan from position i: Len(bytes) + 1 when the rest is valid, otherwise the
\* position of the first byte of the first ill-formed sequence.
RECURSIVE Utf8Scan(_, _)
Utf8Scan(bytes, i) ==
    IF i > Len(bytes) THEN i
    ELSE LET w == Utf8SeqLen(bytes, i)
         IN  IF w = 0 THEN i ELSE Utf8Scan(bytes, i + w)

\* core::str::from_utf8: Ok(the text) or Err(Utf8Error { valid_up_to })
from_utf8(bytes) ==
    LET stop == Utf8Scan(bytes, 1)
    IN  IF stop > Len(bytes)
        THEN [ok |-> TRUE, str |-> bytes]
        ELSE [ok |-> FALSE, valid_up_to |-> stop - 1]

\* the texts of the model: the byte sequences that are str values
Strs == {b \in ByteSeqs : from_utf8(b).ok}

(***************************************************************************)
(* Cow<'static, str> and IndexSet<Cow<'static, str>>.                      *)
(***************************************************************************)
Borrowed(str) == [kind |-> "Borrowed", str |-> str]
Owned(str) == [kind |-> "Owned", str |-> str]

\* A variant-sensitive equality, as a derived PartialEq on the enum would be.
CowEqDerived(a, b) == a = b

\* Cow's PartialEq (and Hash) go through Deref: the variant is not compared.
CowEq(a, b) == a.str = b.str

\* IndexSet::get_index_of: the index (from 0) of the entry equal to value
get_index_of(set, value) ==
    IF \E i \in 1..Len(set) : CowEq(set[i], value)
    THEN Some((CHOOSE i \in 1..Len(set) : CowEq(set[i], value)) - 1)
    ELSE None

\* An insertion that never looks for an equal entry.
insert_full_append(set, value) ==
    [set |-> Append(set, value), index |-> Len(set), inserted |-> TRUE]

\* An insertion that puts a new entry first, shifting the others.
insert_full_front(set, value) ==
    LET at == get_index_of(set, value)
    IN  IF at.some
        THEN [set |-> set, index |-> at.val, inserted |-> FALSE]
        ELSE [set |-> <<value>> \o set, index |-> 0, inserted |-> TRUE]

\* An insertion that returns the number of entries after a push.
insert_full_count(set, value) ==
    LET at == get_index_of(set, value)
    IN  IF at.some
        THEN [set |-> set, index |-> at.val, inserted |-> FALSE]
        ELSE [set |-> Append(set, value), index |-> Len(set) + 1,
              inserted |-> TRUE]

\* IndexSet::insert_full: (index, false) of the equal entry when there is one,
\* the entry left as it is; otherwise the value is appended, (len, true).
insert_full(set, value) ==
    LET at == get_index_of(set, value)
    IN  IF at.some
        THEN [set |-> set, index |-> at.val, inserted |-> FALSE]
        ELSE [set |-> Append(set, value), index |-> Len(set), inserted |-> TRUE]

\* A lookup that gives the last entry for an index past the end.
get_index_clamped(set, i) ==
    IF i < Len(set) THEN Some(set[i + 1])
    ELSE IF Len(set) > 0 THEN Some(set[Len(set)]) ELSE None

\* IndexSet::get_index
get_index(set, i) ==
    IF i < Len(set) THEN Some(set[i + 1]) ELSE None

(***************************************************************************)
(* StrPool and StrRef.                                                     *)
(***************************************************************************)
StrRef(ptr) == [ptr |-> ptr]

\* impl Default for StrPool
StrPool_default == [pool |-> <<>>]

\* StrPool::put_static: the pool after the call and the handle returned
StrPool_put_static(self, str) ==
    LET r == insert_full(self.pool, Borrowed(str))
    IN  [self |-> [pool |-> r.set], ref |-> StrRef(r.index)]

\* An owned insertion that pushes the buffer without looking for its content.
StrPool_put_heap_push(self, str) ==
    [self |-> [pool |-> Append(self.pool, Owned(str))],
     ref |-> StrRef(Len(self.pool))]

\* StrPool::put_heap
StrPool_put_heap(self, str) ==
    LET r == insert_full(self.pool, Owned(str))
    IN  [self |-> [pool |-> r.set], ref |-> StrRef(r.index)]

\* StrPool::get
StrPool_get(self, r) ==
    LET e == get_index(self.pool, r.ptr)
    IN  IF e.some THEN Some(e.val.str) ELSE None

\* global(): the calling thread's pool; GLOBAL_POOL.with creates it on first use
global(t) ==
    IF GLOBAL_POOL[t].some THEN GLOBAL_POOL[t].val ELSE StrPool_default

\* no call has returned since the caller last went on
Idle == [op |-> "none"]

Init ==
    /\ GLOBAL_POOL = [t \in Threads |-> None]
    /\ issued = [t \in Threads |-> {}]
    /\ ret = Idle

\* pub fn put_static: the pool of thread t after the call, and the handle
put_static(t, str) == StrPool_put_static(global(t), str)

\* pub fn put_heap
put_heap(t, str) == StrPool_put_heap(global(t), str)

\* str::to_owned / String::from(Box<str>): a new buffer with the same bytes
to_owned(str) == [i \in 1..Len(str) |-> str[i]]

\* A default handle that takes index 0 for the empty text without interning.
StrRef_default_zero(t) == [self |-> global(t), ref |-> StrRef(0)]

\* impl Default for StrRef
StrRef_default(t) == put_static(t, <<>>)

\* impl From<String> for StrRef
StrRef_from_String(t, value) == put_heap(t, value)

\* impl From<&str> for StrRef
StrRef_from_str(t, value) == put_heap(t, to_owned(value))

\* impl From<Box<str>> for StrRef
StrRef_from_Box(t, value) == put_heap(t, to_owned(value))

\* Result<StrRef, Utf8Error> of the byte constructors; res is the pool and the
\* handle of the insertion, present when ok
Ok(res) == [ok |-> TRUE, res |-> res]
Err(e) == [ok |-> FALSE, err |-> e]

\* A byte constructor that interns without validating.
StrRef_try_from_slice_unchecked(t, value) == Ok(put_heap(t, to_owned(value)))

\* impl TryFrom<&[u8]> for StrRef
StrRef_try_from_slice(t, value) ==
    LET s == from_utf8(value)
    IN  IF s.ok THEN Ok(put_heap(t, to_owned(s.str)))
        ELSE Err([valid_up_to |-> s.valid_up_to])

\* impl TryFrom<Vec<u8>> for StrRef: String::from_utf8 keeps the buffer
StrRef_try_from_Vec(t, value) ==
    LET buf == from_utf8(value)
    IN  IF buf.ok THEN Ok(put_heap(t, buf.str))
        ELSE Err([valid_up_to |-> buf.valid_up_to])

\* impl TryFrom<[u8; N]> for StrRef
StrRef_try_from_array(t, value) == StrRef_try_from_slice(t, value)

\* impl TryFrom<&[u8; N]> for StrRef
StrRef_try_from_array_ref(t, value) == StrRef_try_from_slice(t, value)

(***************************************************************************)
(* Resolution and the behaviour derived from it.  A call that can panic    *)
(* yields Done(v) or Panic(msg).                                           *)
(***************************************************************************)
Done(v) == [panic |-> FALSE, val |-> v]
Panic(msg) == [panic |-> TRUE, msg |-> msg]

\* An unwrapping that substitutes the empty text (unwrap_or_default).
expect_or_default(opt, msg) == IF opt.some THEN Done(opt.val) ELSE Done(<<>>)

\* Option::expect
expect(opt, msg) == IF opt.some THEN Done(opt.val) ELSE Panic(msg)

\* A resolution that counts entries from 1.
deref_from_one(t, self) ==
    expect(StrPool_get(global(t), StrRef(self.ptr + 1)), "null string ref")

\* impl Deref for StrRef
deref(t, self) == expect(StrPool_get(global(t), self), "null string ref")

\* str == str
str_eq(a, b) == a = b

Min(a, b) == IF a <= b THEN a ELSE b

\* Ord for str: the bytes compared in order, then the lengths
str_cmp(a, b) ==
    LET l == Min(Len(a), Len(b))
        diff == {i \in 1..l : a[i] # b[i]}
    IN  IF diff # {}
        THEN LET d == CHOOSE i \in diff : \A j \in diff : i <= j
             IN  IF a[d] < b[d] THEN "Less" ELSE "Greater"
        ELSE IF Len(a) < Len(b) THEN "Less"
        ELSE IF Len(a) > Len(b) THEN "Greater"
        ELSE "Equal"

\* PartialOrd for str
str_partial_cmp(a, b) == Some(str_cmp(a, b))

\* An equality that resolves self on both sides.
StrRef_eq_self(t, self, other) ==
    LET a == deref(t, self)
        b == deref(t, self)
    IN  IF a.panic THEN a ELSE IF b.panic THEN b
        ELSE Done(str_eq(a.val, b.val))

\* impl PartialEq<Self> for StrRef
StrRef_eq(t, self, other) ==
    LET a == deref(t, self)
        b == deref(t, other)
    IN  IF a.panic THEN a ELSE IF b.panic THEN b
        ELSE Done(str_eq(a.val, b.val))

\* impl PartialEq<str> for StrRef
StrRef_eq_str(t, self, other) ==
    LET a == deref(t, self)
        b == Done(other)
    IN  IF a.panic THEN a ELSE IF b.panic THEN b
        ELSE Done(str_eq(a.val, b.val))

\* An ordering of the handles by their indices, as a derive would give.
StrRef_cmp_ptr(t, self, other) ==
    Done(IF self.ptr < other.ptr THEN "Less"
         ELSE IF self.ptr > other.ptr THEN "Greater" ELSE "Equal")

\* impl Ord for StrRef
StrRef_cmp(t, self, other) ==
    LET a == deref(t, self)
        b == deref(t, other)
    IN  IF a.panic THEN a ELSE IF b.panic THEN b
        ELSE Done(str_cmp(a.val, b.val))

\* impl PartialOrd<Self> for StrRef
StrRef_partial_cmp(t, self, other) ==
   
    LET a == deref(t, self)
        b == deref(t, other)
    IN  IF a.panic THEN a ELSE IF b.panic THEN b
        ELSE Done(str_partial_cmp(a.val, b.val))

\* Hash for str: the bytes, then 0xff; state is what the hasher was fed
str_hash(str, state) == state \o str \o <<255>>

\* A hash of the index, as a derive would give (Hasher::write_usize).
StrRef_hash_ptr(t, self, state) == Done(Append(state, self.ptr))

\* impl Hash for StrRef
StrRef_hash(t, self, state) ==
    LET s == deref(t, self)
    IN  IF s.panic THEN s ELSE Done(str_hash(s.val, state))

\* impl Borrow<str> for StrRef
StrRef_borrow(t, self) == deref(t, self)

\* impl AsRef<str> for StrRef
StrRef_as_ref_str(t, self) == deref(t, self)

\* Serializer::serialize_str: the text as a str of the serde data model
serialize_str(v) == [str |-> v]

\* A serialization of the struct as derived, its index field.
StrRef_serialize_ptr(t, self) == Done([ptr |-> self.ptr])

\* impl Serialize for StrRef
StrRef_serialize(t, self) ==
    LET s == StrRef_as_ref_str(t, self)
    IN  IF s.panic THEN s ELSE Done(serialize_str(s.val))

\* impl Deserialize for StrRef: String::deserialize, then StrRef::from
StrRef_deserialize(t, wire) ==
    IF "str" \in DOMAIN wire
    THEN Ok(StrRef_from_String(t, to_owned(wire.str)))
    ELSE Err("invalid type")

\* impl From<StrRef> for String
String_from(t, value) ==
    LET s == deref(t, value)
    IN  IF s.panic THEN s ELSE Done(to_owned(s.val))

(***************************************************************************)
(* The calls a client makes.  Handles passed to a call are handles the     *)
(* calling thread got from an insertion.  A call is made when the caller   *)
(* has gone on from the one before (ret = Idle).                           *)
(***************************************************************************)
\* the pool of thread t holds at most MaxPool entries after the call
WithinBound(self) == Len(self.pool) <= MaxPool

Held(t) == {h.ref : h \in issued[t]}

\* the handles StrPool::get is tried with: every index up to one past MaxPool - 1
AnyRefs == {StrRef(i) : i \in 0..MaxPool}

\* what a hasher may have been fed before it is given a handle
HasherStates == {<<>>, <<104>>}

\* An insertion into a pool that all threads share (a plain static).
Inserted_shared(t, op, str, r) ==
    /\ ret = Idle
    /\ WithinBound(r.self)
    /\ GLOBAL_POOL' = [u \in Threads |-> Some(r.self)]
    /\ issued' = [issued EXCEPT ![t] = @ \cup {[ref |-> r.ref, str |-> str]}]
    /\ ret' = [op |-> op, t |-> t, str |-> str, ref |-> r.ref]

\* what every inserting call leaves behind: the pool, the handle and its text
Inserted(t, op, str, r) ==
    /\ ret = Idle
    /\ WithinBound(r.self)
    /\ GLOBAL_POOL' = [GLOBAL_POOL EXCEPT ![t] = Some(r.self)]
    /\ issued' = [issued EXCEPT ![t] = @ \cup {[ref |-> r.ref, str |-> str]}]
    /\ ret' = [op |-> op, t |-> t, str |-> str, ref |-> r.ref]

\* A byte constructor that interns the valid prefix before it returns Err.
Tried_prefix(t, op, value, r) ==
    /\ ret = Idle
    /\ IF r.ok
       THEN Inserted(t, op, value, r.res)
       ELSE LET p == put_heap(t, SubSeq(value, 1, r.err.valid_up_to))
            IN  /\ WithinBound(p.self)
                /\ GLOBAL_POOL' = [GLOBAL_POOL EXCEPT ![t] = Some(p.self)]
                /\ ret' = [op |-> op, t |-> t, str |-> value, err |-> r.err]
                /\ UNCHANGED issued

\* a byte constructor: the insertion when the bytes are text, else only Err
Tried(t, op, value, r) ==
    /\ ret = Idle
    /\ IF r.ok
       THEN Inserted(t, op, value, r.res)
       ELSE /\ ret' = [op |-> op, t |-> t, str |-> value, err |-> r.err]
            /\ UNCHANGED <<GLOBAL_POOL, issued>>

\* a call that resolves handles: global() has created the pool, nothing else
Resolved(t, r) ==
    /\ ret = Idle
    /\ GLOBAL_POOL' = [GLOBAL_POOL EXCEPT ![t] = Some(global(t))]
    /\ ret' = r
    /\ UNCHANGED issued

PutStatic(t, str) == Inserted(t, "put_static", str, put_static(t, str))

PutHeap(t, str) == Inserted(t, "put_heap", str, put_heap(t, str))

Default(t) == Inserted(t, "default", <<>>, StrRef_default(t))

FromString(t, value) ==
    Inserted(t, "from_String", value, StrRef_from_String(t, value))

FromStr(t, value) == Inserted(t, "from_str", value, StrRef_from_str(t, value))

FromBox(t, value) == Inserted(t, "from_Box", value, StrRef_from_Box(t, value))

TryFromSlice(t, value) ==
    Tried(t, "try_from_slice", value, StrRef_try_from_slice(t, value))

TryFromVec(t, value) ==
    Tried(t, "try_from_Vec", value, StrRef_try_from_Vec(t, value))

TryFromArray(t, value) ==
    Tried(t, "try_from_array", value, StrRef_try_from_array(t, value))

TryFromArrayRef(t, value) ==
    Tried(t, "try_from_array_ref", value, StrRef_try_from_array_ref(t, value))

\* StrPool::get on the pool of thread t, with any handle: &self, no global()
Get(t, r) ==
    /\ ret = Idle
    /\ ret' = [op |-> "get", t |-> t, self |-> r,
               val |-> StrPool_get(global(t), r)]
    /\ UNCHANGED <<GLOBAL_POOL, issued>>

Deref(t, self) ==
    Resolved(t, [op |-> "deref", t |-> t, self |-> self, val |-> deref(t, self)])

IntoString(t, value) ==
    Resolved(t, [op |-> "String_from", t |-> t, self |-> value,
                 val |-> String_from(t, value)])

Eq(t, self, other) ==
    Resolved(t, [op |-> "eq", t |-> t, self |-> self, other |-> other,
                 val |-> StrRef_eq(t, self, other)])

EqStr(t, self, other) ==
    Resolved(t, [op |-> "eq_str", t |-> t, self |-> self, other |-> other,
                 val |-> StrRef_eq_str(t, self, other)])

PartialCmp(t, self, other) ==
    Resolved(t, [op |-> "partial_cmp", t |-> t, self |-> self, other |-> other,
                 val |-> StrRef_partial_cmp(t, self, other)])

Cmp(t, self, other) ==
    Resolved(t, [op |-> "cmp", t |-> t, self |-> self, other |-> other,
                 val |-> StrRef_cmp(t, self, other)])

Hash(t, self, state) ==
    Resolved(t, [op |-> "hash", t |-> t, self |-> self, state |-> state,
                 val |-> StrRef_hash(t, self, state)])

Borrow(t, self) ==
    Resolved(t, [op |-> "borrow", t |-> t, self |-> self,
                 val |-> StrRef_borrow(t, self)])

\* thread t hands one of its handles to thread u (StrRef is a plain usize,
\* Send by auto trait); str is the text t interned for it
Send(t, u, h) ==
    /\ ret = Idle
    /\ ret' = [op |-> "send", t |-> t, to |-> u, self |-> h.ref, str |-> h.str]
    /\ UNCHANGED <<GLOBAL_POOL, issued>>

\* thread u resolves the handle it was handed, in its own pool
DerefSent(u) ==
    /\ ret.op = "send"
    /\ ret.to = u
    /\ GLOBAL_POOL' = [GLOBAL_POOL EXCEPT ![u] = Some(global(u))]
    /\ ret' = [op |-> "deref_sent", t |-> u, from |-> ret.t, self |-> ret.self,
               str |-> ret.str, val |-> deref(u, ret.self)]
    /\ UNCHANGED issued

Serialize(t, self) ==
    Resolved(t, [op |-> "serialize", t |-> t, self |-> self,
                 val |-> StrRef_serialize(t, self)])

\* thread u deserializes what has just been serialized, by itself or another
Deserialize(u) ==
    /\ ret.op = "serialize"
    /\ ~ret.val.panic
    /\ LET r == StrRef_deserialize(u, ret.val.val)
       IN  IF r.ok
           THEN /\ WithinBound(r.res.self)
                /\ GLOBAL_POOL' = [GLOBAL_POOL EXCEPT ![u] = Some(r.res.self)]
                /\ issued' = [issued EXCEPT ![u] =
                                 @ \cup {[ref |-> r.res.ref,
                                          str |-> ret.val.val.str]}]
                /\ ret' = [op |-> "deserialize", t |-> u, from |-> ret.t,
                           src |-> ret.self, str |-> ret.val.val.str,
                           ref |-> r.res.ref]
           ELSE /\ ret' = [op |-> "deserialize", t |-> u, from |-> ret.t,
                           src |-> ret.self, err |-> r.err]
                /\ UNCHANGED <<GLOBAL_POOL, issued>>

(***************************************************************************)
(* The same calls in the steps the code takes.  deref returns a &str that  *)
(* borrows from the pool global() gave it; `live` lists the references     *)
(* into the pool that the suspended operation, or the caller, still holds. *)
(***************************************************************************)
\* the reference deref(t, self) returns: into thread t's pool, at that entry
RefInto(t, self) == [t |-> t, ref |-> self]

BinaryOps == {"eq", "cmp", "partial_cmp"}

\* the three callers of user code, with the trait method they call
UserCalls ==
    {"Hasher::write", "Formatter::write_str", "Serializer::serialize_str"}

\* self.deref() of `self.deref() <op> other.deref()`: the left &str is held
LhsResolved(t, of, self, other) ==
    /\ ret = Idle
    /\ GLOBAL_POOL' = [GLOBAL_POOL EXCEPT ![t] = Some(global(t))]
    /\ ret' = [op |-> "lhs", of |-> of, t |-> t, self |-> self,
               other |-> other, lhs |-> deref(t, self),
               live |-> {RefInto(t, self)}]
    /\ UNCHANGED issued

\* other.deref(): global() again, then the comparison of the two &str
RhsResolved(t) ==
    /\ ret.op = "lhs"
    /\ ret.t = t
    /\ ~ret.lhs.panic
    /\ GLOBAL_POOL' = [GLOBAL_POOL EXCEPT ![t] = Some(global(t))]
    /\ LET b == deref(t, ret.other)
           v == IF b.panic THEN b
                ELSE IF ret.of = "eq" THEN Done(str_eq(ret.lhs.val, b.val))
                ELSE IF ret.of = "cmp" THEN Done(str_cmp(ret.lhs.val, b.val))
                ELSE Done(str_partial_cmp(ret.lhs.val, b.val))
       IN  ret' = [op |-> ret.of, t |-> t, self |-> ret.self,
                   other |-> ret.other, val |-> v]
    /\ UNCHANGED issued

\* the caller still holds the &str deref returned and interns a String
PutHeapHolding(t, str) ==
    /\ ret.op = "deref"
    /\ ret.t = t
    /\ ~ret.val.panic
    /\ LET r == put_heap(t, str)
       IN  /\ WithinBound(r.self)
           /\ GLOBAL_POOL' = [GLOBAL_POOL EXCEPT ![t] = Some(r.self)]
           /\ issued' = [issued EXCEPT ![t] =
                            @ \cup {[ref |-> r.ref, str |-> str]}]
           /\ ret' = [op |-> "put_heap", t |-> t, str |-> str, ref |-> r.ref]

\* hash / fmt / serialize: the handle is resolved and the &str is passed to
\* the caller's hasher, writer or serializer, which now runs
CallUser(t, via, self) ==
    /\ ret = Idle
    /\ ~deref(t, self).panic
    /\ GLOBAL_POOL' = [GLOBAL_POOL EXCEPT ![t] = Some(global(t))]
    /\ ret' = [op |-> "user", via |-> via, t |-> t, self |-> self,
               arg |-> deref(t, self).val, live |-> {RefInto(t, self)}]
    /\ UNCHANGED issued

\* the user's code, while it runs, interns a String
Reenter(t, str) ==
    /\ ret.op = "user"
    /\ ret.t = t
    /\ LET r == put_heap(t, str)
       IN  /\ WithinBound(r.self)
           /\ GLOBAL_POOL' = [GLOBAL_POOL EXCEPT ![t] = Some(r.self)]
           /\ issued' = [issued EXCEPT ![t] =
                            @ \cup {[ref |-> r.ref, str |-> str]}]
    /\ UNCHANGED ret

\* the user's code returns; str's Hash then calls write_u8(0xff), with the
\* &str no longer in use, the others return to their caller
UserReturns(t) ==
    /\ ret.op = "user"
    /\ ret.t = t
    /\ ret' = IF ret.via = "Hasher::write"
              THEN [op |-> "user", via |-> "Hasher::write_u8", t |-> t,
                    self |-> ret.self, arg |-> <<255>>, live |-> {}]
              ELSE [op |-> "returned", via |-> ret.via, t |-> t,
                    self |-> ret.self]
    /\ UNCHANGED <<GLOBAL_POOL, issued>>

\* the caller takes the result of the call and goes on; Next asks for
\* ret = Idle before it draws the arguments of the next call
Continue ==
    /\ ret # Idle
    /\ ret' = Idle
    /\ UNCHANGED <<GLOBAL_POOL, issued>>

Next ==
    \/ Continue
    \/ \E t \in Running :
            \/ ret = Idle /\ \E str \in Strs : PutStatic(t, str)
            \/ ret = Idle /\ \E str \in Strs : PutHeap(t, str)
            \/ ret = Idle /\ Default(t)
            \/ ret = Idle /\ \E value \in Strs : FromString(t, value)
            \/ ret = Idle /\ \E value \in Strs : FromStr(t, value)
            \/ ret = Idle /\ \E value \in Strs : FromBox(t, value)
            \/ ret = Idle /\ \E value \in ByteSeqs : TryFromSlice(t, value)
            \/ ret = Idle /\ \E value \in ByteSeqs : TryFromVec(t, value)
            \/ ret = Idle /\ \E value \in ByteSeqs : TryFromArray(t, value)
            \/ ret = Idle /\ \E value \in ByteSeqs : TryFromArrayRef(t, value)
            \/ ret = Idle /\ \E self \in Held(t) : Deref(t, self)
            \/ ret = Idle /\ \E value \in Held(t) : IntoString(t, value)
            \/ ret = Idle /\ \E self, other \in Held(t) : Eq(t, self, other)
            \/ ret = Idle /\ \E self \in Held(t), other \in Strs :
                                 EqStr(t, self, other)
            \/ ret = Idle /\ \E self, other \in Held(t) :
                                 PartialCmp(t, self, other)
            \/ ret = Idle /\ \E self, other \in Held(t) : Cmp(t, self, other)
            \/ ret = Idle /\ \E self \in Held(t), state \in HasherStates :
                                 Hash(t, self, state)
            \/ ret = Idle /\ \E self \in Held(t) : Borrow(t, self)
            \/ ret = Idle /\ \E r \in AnyRefs : Get(t, r)

Spec == Init /\ [][Next]_vars

(***************************************************************************)
(* Several threads, each with its pool, their calls interleaved; handles   *)
(* and serialized handles pass from one thread to another.                 *)
(***************************************************************************)
\* the texts interned when several threads run
MTStrs == {s \in Strs : Len(s) < MaxLen}

NextMT ==
    \/ Continue
    \/ \E t \in Threads :
            \/ ret = Idle /\ Default(t)
            \/ ret = Idle /\ \E str \in MTStrs : PutHeap(t, str)
            \/ ret = Idle /\ \E self \in Held(t) : Deref(t, self)
            \/ ret = Idle /\ \E h \in issued[t], u \in Threads \ {t} :
                                 Send(t, u, h)
            \/ DerefSent(t)
            \/ ret = Idle /\ \E self \in Held(t) : Serialize(t, self)
            \/ Deserialize(t)

SpecMT == Init /\ [][NextMT]_vars

\* the references into a pool that are held in this state: by an operation
\* that has not returned, or by the caller deref / borrow returned one to
LiveRefs ==
    IF "live" \in DOMAIN ret THEN ret.live
    ELSE IF ret.op \in {"deref", "borrow"} /\ ~ret.val.panic
         THEN {RefInto(ret.t, ret.self)}
         ELSE {}

\* a step in which thread t calls global(), taking &mut StrPool
Accesses(t) ==
    \/ \E str \in MTStrs :
            PutHeap(t, str) \/ PutHeapHolding(t, str) \/ Reenter(t, str)
    \/ \E self \in Held(t) : Deref(t, self)
    \/ \E of \in BinaryOps, self, other \in Held(t) :
            LhsResolved(t, of, self, other)
    \/ RhsResolved(t)
    \/ \E via \in UserCalls, self \in Held(t) : CallUser(t, via, self)

NextSteps ==
    \/ Continue
    \/ \E t \in Running :
            \/ ret = Idle /\ \E str \in MTStrs : PutHeap(t, str)
            \/ ret = Idle /\ \E self \in Held(t) : Deref(t, self)
            \/ \E str \in MTStrs : PutHeapHolding(t, str)
            \/ ret = Idle /\ \E of \in BinaryOps, self, other \in Held(t) :
                                 LhsResolved(t, of, self, other)
            \/ RhsResolved(t)
            \/ ret = Idle /\ \E via \in UserCalls, self \in Held(t) :
                                 CallUser(t, via, self)
            \/ \E str \in MTStrs : Reenter(t, str)
            \/ UserReturns(t)

SpecSteps == Init /\ [][NextSteps]_vars

(***************************************************************************)
(* What the properties below speak of.                                     *)
(***************************************************************************)
\* the entries of thread t's pool, in index order
entries(t) == global(t).pool

\* the calls that intern a text, and those among them that take bytes
PutOps == {"put_static", "put_heap"}
TryOps == {"try_from_slice", "try_from_Vec", "try_from_array",
           "try_from_array_ref"}
InsertOps == PutOps \cup TryOps \cup {"default", "from_String", "from_str", "from_Box"}

\* the call that has just returned is an insertion that gave a handle
JustInserted(ops) == ret.op \in ops /\ "ref" \in DOMAIN ret

\* the texts thread t has interned
Interned(t) == {h.str : h \in issued[t]}

\* text is the content of an entry of set
Present(set, text) == \E i \in 1..Len(set) : set[i].str = text

(***************************************************************************)
(* C1: no two entries of a pool have the same content; put_static or       *)
(* put_heap of a content that is present returns the index of its entry    *)
(* and leaves the pool as it is; of an absent content, it appends exactly  *)
(* one entry with that content and returns its index.                      *)
(***************************************************************************)
C1_NoDuplicates ==
    \A t \in Threads : \A i, j \in 1..Len(entries(t)) :
        entries(t)[i].str = entries(t)[j].str => i = j

C1_PutStep ==
    \A t \in Threads :
        (JustInserted(PutOps)' /\ ret'.t = t) =>
            IF Present(entries(t), ret'.str)
            THEN /\ entries(t)' = entries(t)
                 /\ entries(t)[ret'.ref.ptr + 1].str = ret'.str
            ELSE /\ Len(entries(t)') = Len(entries(t)) + 1
                 /\ SubSeq(entries(t)', 1, Len(entries(t))) = entries(t)
                 /\ ret'.ref.ptr = Len(entries(t))
                 /\ entries(t)'[ret'.ref.ptr + 1].str = ret'.str

C1_Dedup == [](C1_NoDuplicates) /\ [][C1_PutStep]_vars

\* put_heap has found the entry put_static made, with another entry after it
C1_Witness ==
    /\ JustInserted({"put_heap"})
    /\ Len(entries(ret.t)) = 2
    /\ ret.ref.ptr = 0
    /\ entries(ret.t)[1] = Borrowed(ret.str)

(***************************************************************************)
(* C2: indices are stable.  The handle an insertion returned for a text    *)
(* resolves to that text in every later state, and no step removes an      *)
(* entry, moves it to another index or replaces it.                        *)
(***************************************************************************)
C2_Resolves ==
    \A t \in Threads : \A h \in issued[t] :
        StrPool_get(global(t), h.ref) = Some(h.str)

C2_KeepsEntries ==
    \A t \in Threads :
        /\ Len(entries(t)') >= Len(entries(t))
        /\ \A i \in 1..Len(entries(t)) : entries(t)'[i] = entries(t)[i]

C2_StableIndices == [](C2_Resolves) /\ [][C2_KeepsEntries]_vars

\* the first handle is looked up after a later insertion and a lookup
C2_Witness ==
    /\ ret.op = "deref"
    /\ ret.self = StrRef(0)
    /\ Len(entries(ret.t)) = 2
    /\ \E h \in issued[ret.t] : h.ref = ret.self /\ ret.val = Done(h.str)

(***************************************************************************)
(* C3: growth.  The pool has exactly as many entries as distinct texts     *)
(* have been interned into it (so interning one of them again adds none),  *)
(* and the number of entries never decreases.                              *)
(***************************************************************************)
C3_CountsDistinct ==
    \A t \in Threads : Len(entries(t)) = Cardinality(Interned(t))

C3_NeverShrinks ==
    \A t \in Threads : Len(entries(t)') >= Len(entries(t))

C3_Growth == [](C3_CountsDistinct) /\ [][C3_NeverShrinks]_vars

\* MaxPool distinct texts are in, and one that is not the last was interned again
C3_Witness ==
    /\ JustInserted(InsertOps)
    /\ Cardinality(Interned(ret.t)) = MaxPool
    /\ Len(entries(ret.t)) = MaxPool
    /\ ret.ref.ptr < MaxPool - 1

(***************************************************************************)
(* C4: deduplication does not depend on the source of the text.  The       *)
(* handle any constructor returns (put_static, an owned constructor, a     *)
(* byte constructor or default) has the index of every handle the thread   *)
(* got before for the same content, through whichever constructor, and     *)
(* compares equal to it.                                                   *)
(***************************************************************************)
C4_SourceIndependent ==
    JustInserted(InsertOps) =>
        \A h \in issued[ret.t] :
            h.str = ret.str =>
                /\ h.ref = ret.ref
                /\ StrRef_eq(ret.t, h.ref, ret.ref) = Done(TRUE)

\* a byte constructor has returned the handle of an entry put_static made
C4_Witness ==
    /\ JustInserted(TryOps)
    /\ ret.str # <<>>
    /\ entries(ret.t)[ret.ref.ptr + 1] = Borrowed(ret.str)

(***************************************************************************)
(* C5: content equality.  Comparing two handles of a thread gives true     *)
(* exactly when the texts they were interned for are equal, which is       *)
(* exactly when their indices are equal; comparing a handle with a plain   *)
(* text gives true exactly when that is its text.                          *)
(***************************************************************************)
C5_ContentEquality ==
    /\ ret.op = "eq" =>
           \A h1, h2 \in issued[ret.t] :
               (h1.ref = ret.self /\ h2.ref = ret.other) =>
                   /\ ret.val = Done(h1.str = h2.str)
                   /\ ret.val = Done(ret.self = ret.other)
    /\ ret.op = "eq_str" =>
           \A h \in issued[ret.t] :
               h.ref = ret.self => ret.val = Done(h.str = ret.other)

\* two handles of different texts were compared and found unequal
C5_Witness ==
    /\ ret.op = "eq"
    /\ ret.self # ret.other
    /\ ret.val = Done(FALSE)

(***************************************************************************)
(* C6: round trip.  Converting the handle of a text back to a String       *)
(* gives that text, whenever it is done after the insertion and whatever   *)
(* was interned in between.                                                *)
(***************************************************************************)
C6_RoundTrip ==
    ret.op = "String_from" =>
        \A h \in issued[ret.t] : h.ref = ret.self => ret.val = Done(h.str)

\* the first handle is converted back after another text was interned
C6_Witness ==
    /\ ret.op = "String_from"
    /\ ret.self = StrRef(0)
    /\ Len(entries(ret.t)) = 2
    /\ ret.val.val # <<>>
    /\ [ref |-> ret.self, str |-> ret.val.val] \in issued[ret.t]

(***************************************************************************)
(* C7: ordering.  handle(a) < handle(b) exactly when a is before b in the  *)
(* lexicographic order of the bytes: a differs from b first at a smaller   *)
(* byte, or is a proper prefix of b.  Nothing else decides the order.      *)
(***************************************************************************)
LexLess(a, b) ==
    \E k \in 0..Len(a) :
        /\ k <= Len(b)
        /\ \A i \in 1..k : a[i] = b[i]
        /\ \/ k = Len(a) /\ k < Len(b)
           \/ k < Len(a) /\ k < Len(b) /\ a[k + 1] < b[k + 1]

LexOrdering(a, b) ==
    IF LexLess(a, b) THEN "Less" ELSE IF LexLess(b, a) THEN "Greater" ELSE "Equal"

C7_Ordering ==
    ret.op \in {"cmp", "partial_cmp"} =>
        \A h1, h2 \in issued[ret.t] :
            (h1.ref = ret.self /\ h2.ref = ret.other) =>
                ret.val = IF ret.op = "cmp"
                          THEN Done(LexOrdering(h1.str, h2.str))
                          ELSE Done(Some(LexOrdering(h1.str, h2.str)))

\* the handle interned later, with the larger index, is the smaller one
C7_Witness ==
    /\ ret.op = "cmp"
    /\ ret.self.ptr > ret.other.ptr
    /\ ret.val = Done("Less")

(***************************************************************************)
(* C8: hashing.  Feeding a handle to a hasher feeds it what the plain text *)
(* of the handle feeds it, and the handle borrows as that text, so a       *)
(* handle can be found in a map by the plain text.                         *)
(***************************************************************************)
C8_HashConsistent ==
    /\ ret.op = "hash" =>
           \A h \in issued[ret.t] :
               h.ref = ret.self => ret.val = Done(str_hash(h.str, ret.state))
    /\ ret.op = "borrow" =>
           \A h \in issued[ret.t] : h.ref = ret.self => ret.val = Done(h.str)

\* a handle that is not the first has been fed to a hasher that was fed before
C8_Witness ==
    /\ ret.op = "hash"
    /\ ret.self.ptr > 0
    /\ ret.state # <<>>
    /\ \E h \in issued[ret.t] :
           h.ref = ret.self /\ ret.val = Done(ret.state \o h.str \o <<255>>)

(***************************************************************************)
(* C9: a byte constructor returns the UTF-8 error exactly when the bytes   *)
(* are not UTF-8, that is, not the concatenated encodings of Unicode       *)
(* scalar values; otherwise it returns a handle that resolves to the       *)
(* bytes as text.                                                          *)
(***************************************************************************)
IsScalar(c) == (c >= 0 /\ c < 55296) \/ (c > 57343 /\ c <= 1114111)

\* the UTF-8 encoding of the scalar value c
Encode(c) ==
    IF c < 128 THEN <<c>>
    ELSE IF c < 2048 THEN <<192 + (c \div 64), 128 + (c % 64)>>
    ELSE IF c < 65536
        THEN <<224 + (c \div 4096), 128 + ((c \div 64) % 64), 128 + (c % 64)>>
    ELSE <<240 + (c \div 262144), 128 + ((c \div 4096) % 64),
           128 + ((c \div 64) % 64), 128 + (c % 64)>>

\* the value whose encoding chunk would be, were chunk an encoding
Payload(chunk) ==
    IF Len(chunk) = 1 THEN chunk[1]
    ELSE IF Len(chunk) = 2 THEN (chunk[1] - 192) * 64 + (chunk[2] - 128)
    ELSE IF Len(chunk) = 3
        THEN (chunk[1] - 224) * 4096 + (chunk[2] - 128) * 64 + (chunk[3] - 128)
    ELSE (chunk[1] - 240) * 262144 + (chunk[2] - 128) * 4096
             + (chunk[3] - 128) * 64 + (chunk[4] - 128)

IsEncoding(chunk) == IsScalar(Payload(chunk)) /\ Encode(Payload(chunk)) = chunk

RECURSIVE IsUtf8(_)
IsUtf8(bytes) ==
    \/ bytes = <<>>
    \/ \E k \in 1..Min(4, Len(bytes)) :
           /\ IsEncoding(SubSeq(bytes, 1, k))
           /\ IsUtf8(SubSeq(bytes, k + 1, Len(bytes)))

C9_BytesChecked ==
    ret.op \in TryOps =>
        /\ ("err" \in DOMAIN ret) <=> ~IsUtf8(ret.str)
        /\ ("ref" \in DOMAIN ret) <=> IsUtf8(ret.str)
        /\ "ref" \in DOMAIN ret => deref(ret.t, ret.ref) = Done(ret.str)

\* the single byte 0xFF was refused, nothing of it being valid
C9_Witness ==
    /\ ret.op \in TryOps
    /\ ret.str = <<255>>
    /\ "err" \in DOMAIN ret
    /\ ret.err.valid_up_to = 0

(***************************************************************************)
(* C10: a default handle resolves to the empty text and is the handle,     *)
(* with the same index, of every other interning of the empty text by the  *)
(* thread, before or after; a default construction adds an entry only      *)
(* when the empty text is not in the pool, so at most one over all.        *)
(***************************************************************************)
C10_DefaultIsEmpty ==
    JustInserted({"default"}) =>
        /\ ret.str = <<>>
        /\ deref(ret.t, ret.ref) = Done(<<>>)

C10_OneEmpty ==
    \A t \in Threads : \A h1, h2 \in issued[t] :
        (h1.str = <<>> /\ h2.str = <<>>) =>
            /\ h1.ref = h2.ref
            /\ StrRef_eq(t, h1.ref, h2.ref) = Done(TRUE)

C10_DefaultStep ==
    \A t \in Threads :
        (JustInserted({"default"})' /\ ret'.t = t) =>
            IF Present(entries(t), <<>>)
            THEN entries(t)' = entries(t)
            ELSE entries(t)' = Append(entries(t), Borrowed(<<>>))

C10_EmptyDefault ==
    [](C10_DefaultIsEmpty /\ C10_OneEmpty) /\ [][C10_DefaultStep]_vars

\* the default handle is that of the empty String interned earlier, second
C10_Witness ==
    /\ JustInserted({"default"})
    /\ ret.ref = StrRef(1)
    /\ entries(ret.t)[2] = Owned(<<>>)

(***************************************************************************)
(* C11: StrPool::get gives the content stored at the index when the index  *)
(* is smaller than the number of entries and None for every other index,   *)
(* and a lookup leaves the pool as it is.                                  *)
(***************************************************************************)
C11_GetResult ==
    ret.op = "get" =>
        ret.val = IF ret.self.ptr < Len(entries(ret.t))
                  THEN Some(entries(ret.t)[ret.self.ptr + 1].str)
                  ELSE None

C11_GetStep == ret'.op = "get" => GLOBAL_POOL' = GLOBAL_POOL

C11_Lookup == [](C11_GetResult) /\ [][C11_GetStep]_vars

\* the first index past the entries of a pool that has entries gave None
C11_Witness ==
    /\ ret.op = "get"
    /\ Len(entries(ret.t)) > 0
    /\ ret.self.ptr = Len(entries(ret.t))
    /\ ret.val = None

(***************************************************************************)
(* C12: dereferencing a handle whose index has no entry in the pool of the *)
(* resolving thread panics ("null string ref"); it gives no result, no     *)
(* substituted and no empty text.  With an entry it gives the content.     *)
(***************************************************************************)
C12_InvalidPanics ==
    ret.op \in {"deref", "deref_sent"} =>
        IF ret.self.ptr < Len(entries(ret.t))
        THEN ret.val = Done(entries(ret.t)[ret.self.ptr + 1].str)
        ELSE ret.val = Panic("null string ref")

\* a handle from another thread had no entry here, and resolving it panicked
C12_Witness ==
    /\ ret.op = "deref_sent"
    /\ ret.self.ptr >= Len(entries(ret.t))
    /\ ret.val.panic

(***************************************************************************)
(* C13: handles stay valid within one context.  Every handle an insertion  *)
(* returned has an index smaller than the number of entries of the pool,   *)
(* in every state, and no call that resolves such handles panics.          *)
(***************************************************************************)
ResolveOps ==
    {"deref", "String_from", "eq", "eq_str", "partial_cmp", "cmp", "hash",
     "borrow"}

C13_HandlesValid ==
    /\ \A t \in Threads : \A h \in issued[t] : h.ref.ptr < Len(entries(t))
    /\ (ret.op \in ResolveOps /\ ret.self \in Held(ret.t)) => ~ret.val.panic

\* the handle of the last entry a full pool can have was resolved
C13_Witness ==
    /\ ret.op = "deref"
    /\ ret.self = StrRef(MaxPool - 1)
    /\ ~ret.val.panic

(***************************************************************************)
(* C14: each thread has its own pool, absent until the thread's first      *)
(* call and empty when created.  Under every interleaving, the pool of a   *)
(* thread changes only in a call of that thread, so an insertion by one    *)
(* thread leaves the entries of every other pool as they are.  (The same   *)
(* index mapping to different contents in two pools is the witness.)       *)
(***************************************************************************)
C14_NoneUntilUsed ==
    \A t \in Threads : ~GLOBAL_POOL[t].some => issued[t] = {}

C14_OwnPoolOnly ==
    \A u \in Threads :
        GLOBAL_POOL'[u] # GLOBAL_POOL[u] =>
            /\ ret' # Idle
            /\ ret'.t = u
            /\ ~GLOBAL_POOL[u].some =>
                   \/ GLOBAL_POOL'[u] = Some(StrPool_default)
                   \/ /\ "ref" \in DOMAIN ret'
                      /\ ret'.ref = StrRef(0)
                      /\ Len(GLOBAL_POOL'[u].val.pool) = 1
                      /\ GLOBAL_POOL'[u].val.pool[1].str = ret'.str

C14_Independent == [](C14_NoneUntilUsed) /\ [][C14_OwnPoolOnly]_vars

\* index 0 holds different contents in two pools, after one thread's insertion
C14_Witness ==
    /\ JustInserted(InsertOps)
    /\ \E t, u \in Threads :
           /\ t # u
           /\ Len(entries(t)) > 0
           /\ Len(entries(u)) > 0
           /\ entries(t)[1].str # entries(u)[1].str

(***************************************************************************)
(* C15: a handle serializes as its text, not its index, and deserializes   *)
(* by interning the text into the pool of the deserializing thread: the    *)
(* result resolves there to the text of the serialized handle; in the      *)
(* thread that serialized it, it is the same index and no entry is added.  *)
(***************************************************************************)
C15_SerializedText ==
    ret.op = "serialize" =>
        \A h \in issued[ret.t] :
            h.ref = ret.self => ret.val = Done([str |-> h.str])

C15_Deserialized ==
    ret.op = "deserialize" =>
        /\ "ref" \in DOMAIN ret
        /\ \A h \in issued[ret.from] :
               h.ref = ret.src =>
                   /\ deref(ret.t, ret.ref) = Done(h.str)
                   /\ ret.from = ret.t => ret.ref = ret.src

C15_SameContextStep ==
    (ret'.op = "deserialize" /\ ret'.from = ret'.t) =>
        GLOBAL_POOL' = GLOBAL_POOL

C15_Serde ==
    [](C15_SerializedText /\ C15_Deserialized) /\ [][C15_SameContextStep]_vars

\* another thread deserialized the handle and got another index for the text
C15_Witness ==
    /\ ret.op = "deserialize"
    /\ ret.from # ret.t
    /\ "ref" \in DOMAIN ret
    /\ ret.ref # ret.src
    /\ deref(ret.t, ret.ref) = deref(ret.from, ret.src)

(***************************************************************************)
(* C16: accesses to the pool do not overlap: whenever an operation takes   *)
(* mutable access to a thread's pool, no reference into that pool obtained *)
(* by an earlier operation is still held.                                  *)
(***************************************************************************)
C16_NoOverlap ==
    [][\A t \in Running :
          Accesses(t) => \A l \in LiveRefs : l.t # t]_vars

(***************************************************************************)
(* C17: no operation runs the caller's hasher, writer or serializer while  *)
(* it holds a reference into the pool, so that code never inserts into the *)
(* pool in the middle of an operation holding one.                         *)
(***************************************************************************)
C17_NoCallbackWhileOpen == ret.op = "user" => LiveRefs = {}

(***************************************************************************)
(* C18: a handle made in one thread and resolved in another is not         *)
(* detected as foreign.  As first stated: the resolution always returns    *)
(* some content, never failing.                                            *)
(***************************************************************************)
C18_AlwaysContent == ret.op = "deref_sent" => ~ret.val.panic

(***************************************************************************)
(* C18, amended: the resolution gives what the resolving thread's own      *)
(* handle with that index gives, whatever text the handle was interned     *)
(* for; when the resolving pool has no entry at the index it panics.       *)
(***************************************************************************)
C18_ForeignUnchecked ==
    ret.op = "deref_sent" =>
        /\ \A h \in issued[ret.t] : h.ref = ret.self => ret.val = Done(h.str)
        /\ ret.self \notin Held(ret.t) => ret.val = Panic("null string ref")

\* the handle resolved, without complaint, to a text it was not interned for
C18_Witness ==
    /\ ret.op = "deref_sent"
    /\ ~ret.val.panic
    /\ ret.val.val # ret.str

(***************************************************************************)
(* C19: a byte constructor that returns the encoding error has changed     *)
(* nothing: no entry added, no entry or index changed, no handle given.    *)
(***************************************************************************)
C19_ErrStep ==
    (ret'.op \in TryOps /\ "err" \in DOMAIN ret') =>
        /\ GLOBAL_POOL' = GLOBAL_POOL
        /\ issued' = issued

C19_FailedLeavesPool == [][C19_ErrStep]_vars

\* bytes with a valid first byte were refused while the pool had an entry
C19_Witness ==
    /\ ret.op \in TryOps
    /\ "err" \in DOMAIN ret
    /\ ret.err.valid_up_to > 0
    /\ Len(entries(ret.t)) > 0
====
